---- MODULE Spec2Model ----
(***************************************************************************)
(* The parallel Mandelbrot render engine of go-mandelbrot                   *)
(* (src/backend/fractal.go, src/main.go): one render call, its tile         *)
(* producer, its pool of workers, the WaitGroup closer and the collector,   *)
(* with Go's channel semantics (buffered FIFO, close, range, panic on a     *)
(* send to a closed channel).                                               *)
(*                                                                         *)
(* Real numbers are kept exactly as integers over a denominator.  The       *)
(* viewport (posX, posY, height) and the jitter are counted in halves:      *)
(* posX2 = 2*posX and so on.  On these inputs every float64 operation of    *)
(* mandelbrotIteraction is exact, so the integer arithmetic below is the    *)
(* float arithmetic of the code.  The affine map from a pixel to the plane  *)
(* divides by the image size; the model rounds its result down to the       *)
(* half grid.                                                               *)
(***************************************************************************)
EXTENDS Integers, Sequences, FiniteSets, Bags, TLC

(* ------------------------------ bounds -------------------------------- *)

\* largest image width / height of a request
MaxDim == 4
\* largest number of pixels of a request (|imgWidth * imgHeight|)
MaxPixels == 6
\* largest numBlocks of a request
MaxBlocks == 4
\* largest numThreads of a request
MaxThreads == 2
\* largest samples of a request
MaxSamples == 2
\* largest maxIter of a request
MaxIter == 2
\* largest image width / height the partitioner alone is run on
MaxTileDim == 8
\* largest numBlocks the partitioner alone is run on
MaxTileBlocks == 9
\* largest pixels x workers of a request (|imgWidth * imgHeight| * numThreads)
MaxWork == 12
\* largest |a| and |b|, in halves, the escape evaluator alone is run on
MaxCoord == 6

(* ------------------------- program constants --------------------------- *)

\* the squared escape radius: if xx+yy > 4
EscapeRadiusSq == 4
\* the alpha byte the collector writes: pixels[idx+3] = 255
Alpha == 255
\* bytes per pixel: idx := (p.y*cfg.imgWidth + p.x) * 4
BytesPerPixel == 4
\* the hue divisor: float64(iter)/100*r
HueDivisor == 100
\* the defaults of newConfigFromRequest: width, height_px, numBlocks, numThreads
DefaultWidth == 1024
DefaultHeight == 1024
DefaultBlocks == 64
DefaultThreads == 16

(* --------------------------- Go arithmetic ----------------------------- *)

Abs(n) == IF n < 0 THEN -n ELSE n

\* Go's integer division truncates toward zero (TLA+'s \div floors).
GoDiv(a, b) ==
    IF (a >= 0) = (b > 0) THEN Abs(a) \div Abs(b) ELSE -(Abs(a) \div Abs(b))

\* int(math.Sqrt(float64(n))) for n >= 0: the largest s with s*s <= n.
IntSqrt(n) == CHOOSE s \in 0..n : s * s <= n /\ (s + 1) * (s + 1) > n

(* --------------------------- EscapeEvaluator --------------------------- *)

\* A variant: at the loop's end the magnitude of the updated point is
\* computed afresh and returned.
RECURSIVE MandelLoopFresh(_, _, _, _, _, _, _, _, _)
MandelLoopFresh(a2, b2, maxIter, i, X, Y, s, lastNum, lastDen) ==
    IF i >= maxIter
    THEN [magNum |-> X * X + Y * Y, magDen |-> s * s, iter |-> maxIter]
    ELSE LET xx == X * X
             yy == Y * Y
             xy == X * Y
             ss == s * s
         IN  IF xx + yy > EscapeRadiusSq * ss
             THEN [magNum |-> xx + yy, magDen |-> ss, iter |-> i]
             ELSE MandelLoopFresh(a2, b2, maxIter, i + 1,
                                  xx - yy + a2 * (ss \div 2),
                                  2 * xy + b2 * (ss \div 2),
                                  ss, xx + yy, ss)

\* The loop of mandelbrotIteraction from iteration i on.  x = X/s, y = Y/s;
\* lastNum/lastDen is the xx+yy the previous iteration computed (0 before the
\* first).  a = a2/2, b = b2/2.
RECURSIVE MandelLoop(_, _, _, _, _, _, _, _, _)
MandelLoop(a2, b2, maxIter, i, X, Y, s, lastNum, lastDen) ==
    IF i >= maxIter
    THEN [magNum |-> lastNum, magDen |-> lastDen, iter |-> maxIter]
    ELSE LET xx == X * X
             yy == Y * Y
             xy == X * Y
             ss == s * s
         IN  IF xx + yy > EscapeRadiusSq * ss
             THEN [magNum |-> xx + yy, magDen |-> ss, iter |-> i]
             ELSE MandelLoop(a2, b2, maxIter, i + 1,
                             xx - yy + a2 * (ss \div 2),
                             2 * xy + b2 * (ss \div 2),
                             ss, xx + yy, ss)

\* A variant that starts the orbit at z = c instead of z = 0.
mandelbrotFromC(a2, b2, maxIter) ==
    MandelLoop(a2, b2, maxIter, 0, a2, b2, 2, 0, 1)

\* mandelbrotIteraction(a, b, maxIter): (magnitudeSquared, iterations), the
\* magnitude as the fraction magNum/magDen.
mandelbrotIteraction(a2, b2, maxIter) ==
    MandelLoop(a2, b2, maxIter, 0, 0, 0, 2, 0, 1)

(* ----------------------------- ColorMapper ----------------------------- *)

\* One channel of the standard HSL -> RGB conversion at saturation 1 and
\* lightness 0.5 (p = 0, q = 1), for the hue t = num/den reduced mod 1,
\* scaled to 0..255 and truncated.
HueToChannel(num, den) ==
    LET p == num % den
    IN  IF 6 * p < den THEN (255 * 6 * p) \div den
        ELSE IF 2 * p < den THEN 255
        ELSE IF 3 * p < 2 * den THEN (255 * (4 * den - 6 * p)) \div den
        ELSE 0

\* hslToRGB(h, 1, 0.5) for the hue h = hNum/hDen: the channels are taken at
\* h + 1/3, h and h - 1/3.
hslToRGB(hNum, hDen) ==
    [R |-> HueToChannel(3 * hNum + hDen, 3 * hDen),
     G |-> HueToChannel(3 * hNum, 3 * hDen),
     B |-> HueToChannel(3 * hNum - hDen, 3 * hDen)]

insideSet == [R |-> 0, G |-> 0, B |-> 0]

\* pixelColor(r, iter): black unless r > 4, else the hue iter/100*r.
pixelColor(res) ==
    IF res.magNum > EscapeRadiusSq * res.magDen
    THEN hslToRGB(res.iter * res.magNum, HueDivisor * res.magDen)
    ELSE insideSet

(* ------------------------------- Config -------------------------------- *)

\* The viewport of the requests, in halves: posX = -2.0, posY = -1.0,
\* height = 2.0.
Viewport == [posX2 |-> -4, posY2 |-> -2, height2 |-> 4]

\* newConfigFromRequest: the request's parameters and the derived pixelTotal.
\* (ratio = imgWidth/imgHeight is kept as the two integers.)
newConfigFromRequest(w, h, maxIter, samples, numBlocks, numThreads) ==
    [posX2 |-> Viewport.posX2, posY2 |-> Viewport.posY2,
     height2 |-> Viewport.height2,
     imgWidth |-> w, imgHeight |-> h, pixelTotal |-> w * h,
     maxIter |-> maxIter, samples |-> samples,
     numBlocks |-> numBlocks, numThreads |-> numThreads]

\* What the spec calls a valid config.
ValidConfig(c) ==
    /\ c.imgWidth > 0 /\ c.imgHeight > 0
    /\ c.samples > 0 /\ c.numThreads > 0
    /\ c.numBlocks > 0
    /\ IntSqrt(c.numBlocks) * IntSqrt(c.numBlocks) = c.numBlocks

(* ------------------------------- Tiles --------------------------------- *)

\* A slip: one band of tiles per worker instead of sqrt(numBlocks).
SideByThreads(c) == IF c.numThreads < 0 THEN 0 ELSE c.numThreads

\* var sqrt = int(math.Sqrt(float64(cfg.numBlocks)))
Side(c) == IF c.numBlocks < 0 THEN 0 ELSE IntSqrt(c.numBlocks)

\* A slip: the right edge of a tile one column too far.
WorkItemOverlap(c, i, j) ==
    [initialX |-> i * GoDiv(c.imgWidth, Side(c)),
     finalX   |-> (i + 1) * GoDiv(c.imgWidth, Side(c)) + 1,
     initialY |-> j * GoDiv(c.imgHeight, Side(c)),
     finalY   |-> (j + 1) * GoDiv(c.imgHeight, Side(c))]

\* A slip: the bottom edge of a tile one row short.
WorkItemShort(c, i, j) ==
    [initialX |-> i * GoDiv(c.imgWidth, Side(c)),
     finalX   |-> (i + 1) * GoDiv(c.imgWidth, Side(c)),
     initialY |-> j * GoDiv(c.imgHeight, Side(c)),
     finalY   |-> (j + 1) * GoDiv(c.imgHeight, Side(c)) - 1]

\* A variant: the band width rounded up instead of down.
WorkItemCeil(c, i, j) ==
    [initialX |-> i * GoDiv(c.imgWidth + Side(c) - 1, Side(c)),
     finalX   |-> (i + 1) * GoDiv(c.imgWidth + Side(c) - 1, Side(c)),
     initialY |-> j * GoDiv(c.imgHeight + Side(c) - 1, Side(c)),
     finalY   |-> (j + 1) * GoDiv(c.imgHeight + Side(c) - 1, Side(c))]

\* A variant: the last band of each axis stretched to the image's edge.
WorkItemStretch(c, i, j) ==
    [initialX |-> i * GoDiv(c.imgWidth, Side(c)),
     finalX   |-> IF i = Side(c) - 1 THEN c.imgWidth
                  ELSE (i + 1) * GoDiv(c.imgWidth, Side(c)),
     initialY |-> j * GoDiv(c.imgHeight, Side(c)),
     finalY   |-> IF j = Side(c) - 1 THEN c.imgHeight
                  ELSE (j + 1) * GoDiv(c.imgHeight, Side(c))]

\* The WorkItem workBufferInit sends for loop indices i, j.
WorkItem(c, i, j) ==
    [initialX |-> i * GoDiv(c.imgWidth, Side(c)),
     finalX   |-> (i + 1) * GoDiv(c.imgWidth, Side(c)),
     initialY |-> j * GoDiv(c.imgHeight, Side(c)),
     finalY   |-> (j + 1) * GoDiv(c.imgHeight, Side(c))]

\* The pixels the worker's two loops visit for a tile.
TilePixels(t) ==
    {<<x, y>> : x \in t.initialX..(t.finalX - 1), y \in t.initialY..(t.finalY - 1)}

(* --------------------------- pixel sampling ---------------------------- *)

\* a := cfg.height*cfg.ratio*((float64(x)+RandFloat64())/float64(cfg.imgWidth)) + cfg.posX
\* in halves, for the jitter rx2/2.
MapA(c, x, rx2) ==
    (c.height2 * c.imgWidth * (2 * x + rx2)) \div (2 * c.imgHeight * c.imgWidth)
        + c.posX2

\* b := cfg.height*((float64(y)+RandFloat64())/float64(cfg.imgHeight)) + cfg.posY
MapB(c, y, ry2) ==
    (c.height2 * (2 * y + ry2)) \div (2 * c.imgHeight) + c.posY2

\* c := pixelColor(mandelbrotIteraction(a, b, cfg.maxIter))
SampleColor(c, x, y, rx2, ry2) ==
    pixelColor(mandelbrotIteraction(MapA(c, x, rx2), MapB(c, y, ry2), c.maxIter))

\* The (colorR, colorG, colorB) sums the sample loop can reach after k
\* samples, the sampler returning values of the set jit (in halves).
RECURSIVE SampleSums(_, _, _, _, _)
SampleSums(c, x, y, k, jit) ==
    IF k <= 0
    THEN {[R |-> 0, G |-> 0, B |-> 0]}
    ELSE {[R |-> s.R + col.R, G |-> s.G + col.G, B |-> s.B + col.B] :
            s \in SampleSums(c, x, y, k - 1, jit),
            col \in {SampleColor(c, x, y, j[1], j[2]) : j \in jit \X jit}}

\* What uint8 of a NaN can be: the language leaves it to the implementation,
\* and a build always yields the same.
NaNBytes == {0, 255}

\* A variant: the quotient rounded to the nearest integer.
AverageRounded(sum, samples, nan) ==
    IF samples > 0 THEN ((2 * sum + samples) \div (2 * samples)) % 256
    ELSE IF samples = 0 THEN nan
    ELSE 0

\* uint8(float64(sum) / float64(cfg.samples)): the truncated quotient; 0/0 is
\* NaN; with a negative samples the loop has not run and -0 converts to 0.
Average(sum, samples, nan) ==
    IF samples > 0 THEN (sum \div samples) % 256
    ELSE IF samples = 0 THEN nan
    ELSE 0

\* The Pix records a worker can send for pixel (x, y).
PixOutcomes(c, x, y, jit, nan) ==
    {[x |-> x, y |-> y,
      cr |-> Average(s.R, c.samples, nan),
      cg |-> Average(s.G, c.samples, nan),
      cb |-> Average(s.B, c.samples, nan)] :
        s \in SampleSums(c, x, y, c.samples, jit)}

(* ------------------------------- state --------------------------------- *)

VARIABLES
    cfg,          \* the Config of the render
    sampler,      \* the values RandFloat64 can return, in halves
    mainPc,       \* where generateFractalBytes (and then handler) stands
    pixels,       \* the byte slice: offset 0..len-1 -> byte
    workBuffer,   \* chan WorkItem: the queued tiles, oldest first
    workClosed,   \* close(workBuffer) has run
    pixelBuffer,  \* chan Pix: the queued pixels, oldest first
    pixelClosed,  \* close(pixelBuffer) has run
    wg,           \* the WaitGroup counter
    launched,     \* how many workerThread goroutines have been started
    wpc,          \* per worker: "idle", "recv", "pixel", "done"
    witem,        \* per worker: the WorkItem being processed
    wx, wy,       \* per worker: the loop variables x and y
    ppc,          \* the producer goroutine: "idle", "send", "done"
    pi, pj,       \* the producer's loop variables i and j
    cpc,          \* the closer goroutine: "idle", "wait", "close", "done"
    received,     \* bag of the <<x, y>> the collector has written
    consumed,     \* bag of the WorkItems the workers have received
    panicked,     \* "" or the runtime panic that ended the process
    err,          \* the error generateFractalBytes returned: "none" before
    statusCode,   \* the response of handler: 0 before
    nanByte,      \* what this build's uint8(NaN) yields
    request,      \* 1 for the first request served, 2 for the second
    firstPixels,  \* the buffer the first request returned
    firstThreads, \* the numThreads of the first request
    escape        \* one call of pixelColor(mandelbrotIteraction(a, b, maxIter))

vars == <<cfg, sampler, mainPc, pixels, workBuffer, workClosed, pixelBuffer,
          pixelClosed, wg, launched, wpc, witem, wx, wy, ppc, pi, pj, cpc,
          received, consumed, panicked, err, statusCode, nanByte, request,
          firstPixels, firstThreads, escape>>

\* what a request leaves alone
env == <<sampler, nanByte, request, firstPixels, firstThreads, escape>>

\* No call of the escape evaluator on its own is under way.
NoCall == [a2 |-> 0, b2 |-> 0, maxIter |-> 0, pc |-> "none",
           res |-> [magNum |-> 0, magDen |-> 1, iter |-> 0],
           color |-> [R |-> 0, G |-> 0, B |-> 0]]

Workers == 1..MaxThreads

NoItem == [initialX |-> 0, finalX |-> 0, initialY |-> 0, finalY |-> 0]

\* A fixed-value sampler stub returns one value; the random one any.
Samplers == {{0}, {1}, {0, 1}}

\* The renders the model runs, each a request and a sampler.  The first
\* family varies the geometry and the pool (one sample per pixel, the full
\* iteration bound, the stub sampler); the second varies the sampling
\* parameters and the sampler on images of one row, rendered as one tile.
Dims == -1..MaxDim

GeometryRequests ==
    {newConfigFromRequest(w, h, MaxIter, 1, nb, nt) :
        w \in Dims, h \in Dims, nb \in -1..MaxBlocks, nt \in -1..MaxThreads}

SamplingRequests ==
    {newConfigFromRequest(w, 1, mi, sa, 1, nt) :
        w \in 1..2, mi \in 0..MaxIter, sa \in -1..MaxSamples, nt \in 1..2}

Renders ==
    {r \in (GeometryRequests \X {{0}}) \cup (SamplingRequests \X Samplers) :
        /\ Abs(r[1].pixelTotal) <= MaxPixels
        /\ Abs(r[1].pixelTotal) * r[1].numThreads <= MaxWork}

Deterministic == Cardinality(sampler) = 1

Init ==
    /\ \E r \in Renders : cfg = r[1] /\ sampler = r[2]
    /\ mainPc = "entry"
    /\ pixels = <<>>
    /\ workBuffer = <<>>
    /\ workClosed = FALSE
    /\ pixelBuffer = <<>>
    /\ pixelClosed = FALSE
    /\ wg = 0
    /\ launched = 0
    /\ wpc = [w \in Workers |-> "idle"]
    /\ witem = [w \in Workers |-> NoItem]
    /\ wx = [w \in Workers |-> 0]
    /\ wy = [w \in Workers |-> 0]
    /\ ppc = "idle"
    /\ pi = 0
    /\ pj = 0
    /\ cpc = "idle"
    /\ received = EmptyBag
    /\ consumed = EmptyBag
    /\ panicked = ""
    /\ err = "none"
    /\ statusCode = 0
    /\ nanByte \in (IF cfg.samples = 0 THEN NaNBytes ELSE {0})
    /\ request = 1
    /\ firstPixels = <<>>
    /\ firstThreads = 0
    /\ escape = NoCall

Running == panicked = ""

(* ------------------------ generateFractalBytes ------------------------- *)

\* workBuffer := make(chan WorkItem, cfg.numBlocks)
WorkCap(c) == c.numBlocks

\* A slip: the pixel channel sized for one row of the image.
PixelCapRow(c) == c.imgWidth

\* pixelBuffer := make(chan Pix, cfg.pixelTotal)
PixelCap(c) == c.pixelTotal

\* pixels := make([]byte, ...); the two make(chan ...); wg.Add(numThreads).
\* make panics on a negative size, wg.Add on a negative counter.
Alloc ==
    /\ Running /\ mainPc = "entry"
    /\ IF cfg.imgWidth * cfg.imgHeight * BytesPerPixel < 0
       THEN /\ panicked' = "makeslice: len out of range"
            /\ UNCHANGED <<pixels, wg, mainPc>>
       ELSE IF cfg.numBlocks < 0 \/ cfg.pixelTotal < 0
       THEN /\ panicked' = "makechan: size out of range"
            /\ UNCHANGED <<pixels, wg, mainPc>>
       ELSE IF cfg.numThreads < 0
       THEN /\ panicked' = "sync: negative WaitGroup counter"
            /\ pixels' = [k \in 0..(cfg.imgWidth * cfg.imgHeight * BytesPerPixel - 1) |-> 0]
            /\ UNCHANGED <<wg, mainPc>>
       ELSE /\ pixels' = [k \in 0..(cfg.imgWidth * cfg.imgHeight * BytesPerPixel - 1) |-> 0]
            /\ wg' = cfg.numThreads
            /\ mainPc' = "spawn"
            /\ UNCHANGED panicked
    /\ UNCHANGED <<cfg, env, workBuffer, workClosed, pixelBuffer, pixelClosed,
                   launched, wpc, witem, wx, wy, ppc, pi, pj, cpc, received,
                   consumed, err, statusCode>>

\* for i := 0; i < cfg.numThreads; i++ { go workerThread(...) }
SpawnWorker ==
    /\ Running /\ mainPc = "spawn"
    /\ launched < cfg.numThreads
    /\ launched' = launched + 1
    /\ wpc' = [wpc EXCEPT ![launched + 1] = "recv"]
    /\ UNCHANGED <<cfg, env, mainPc, pixels, workBuffer, workClosed,
                   pixelBuffer, pixelClosed, wg, witem, wx, wy, ppc, pi, pj,
                   cpc, received, consumed, panicked, err, statusCode>>

\* A slip: the producer started before the loop has started every worker.
SpawnProducerEarly ==
    /\ Running /\ mainPc = "spawn"
    /\ ppc' = "send"
    /\ pi' = 0
    /\ pj' = 0
    /\ mainPc' = "spawnCloser"
    /\ UNCHANGED <<cfg, env, pixels, workBuffer, workClosed, pixelBuffer,
                   pixelClosed, wg, launched, wpc, witem, wx, wy, cpc,
                   received, consumed, panicked, err, statusCode>>

\* go func() { workBufferInit(&cfg, workBuffer); close(workBuffer) }()
SpawnProducer ==
    /\ Running /\ mainPc = "spawn"
    /\ launched >= cfg.numThreads
    /\ ppc' = "send"
    /\ pi' = 0
    /\ pj' = 0
    /\ mainPc' = "spawnCloser"
    /\ UNCHANGED <<cfg, env, pixels, workBuffer, workClosed, pixelBuffer,
                   pixelClosed, wg, launched, wpc, witem, wx, wy, cpc,
                   received, consumed, panicked, err, statusCode>>

\* go func() { wg.Wait(); close(pixelBuffer) }()
SpawnCloser ==
    /\ Running /\ mainPc = "spawnCloser"
    /\ cpc' = "wait"
    /\ mainPc' = "collect"
    /\ UNCHANGED <<cfg, env, pixels, workBuffer, workClosed, pixelBuffer,
                   pixelClosed, wg, launched, wpc, witem, wx, wy, ppc, pi, pj,
                   received, consumed, panicked, err, statusCode>>

\* A slip: the pixels stored in the order they arrive.
PixelIndexArrival(p) == BagCardinality(received) * BytesPerPixel

\* idx := (p.y*cfg.imgWidth + p.x) * 4
PixelIndex(p) == (p.y * cfg.imgWidth + p.x) * BytesPerPixel

\* pixels[idx] = p.cr; pixels[idx+1] = p.cg; pixels[idx+2] = p.cb;
\* pixels[idx+3] = 255
WritePixel(buf, p) ==
    [buf EXCEPT ![PixelIndex(p)] = p.cr,
                ![PixelIndex(p) + 1] = p.cg,
                ![PixelIndex(p) + 2] = p.cb,
                ![PixelIndex(p) + 3] = Alpha]

\* One iteration of for p := range pixelBuffer: receive the oldest pixel and
\* write it; an index outside the slice panics.
CollectPixel ==
    /\ Running /\ mainPc = "collect"
    /\ pixelBuffer # <<>>
    /\ LET p == Head(pixelBuffer)
       IN  /\ pixelBuffer' = Tail(pixelBuffer)
           /\ IF PixelIndex(p) \in DOMAIN pixels /\ PixelIndex(p) + 3 \in DOMAIN pixels
              THEN /\ pixels' = WritePixel(pixels, p)
                   /\ received' = received (+) SetToBag({<<p.x, p.y>>})
                   /\ UNCHANGED panicked
              ELSE /\ panicked' = "index out of range"
                   /\ UNCHANGED <<pixels, received>>
    /\ UNCHANGED <<cfg, env, mainPc, workBuffer, workClosed, pixelClosed,
                   wg, launched, wpc, witem, wx, wy, ppc, pi, pj, cpc,
                   consumed, err, statusCode>>

\* The range loop ends when pixelBuffer is closed and empty; return pixels, nil.
CollectDone ==
    /\ Running /\ mainPc = "collect"
    /\ pixelBuffer = <<>> /\ pixelClosed
    /\ mainPc' = "returned"
    /\ err' = "nil"
    /\ UNCHANGED <<cfg, env, pixels, workBuffer, workClosed, pixelBuffer,
                   pixelClosed, wg, launched, wpc, witem, wx, wy, ppc, pi, pj,
                   cpc, received, consumed, panicked, statusCode>>

\* handler: 500 on an error, else 200 with the encoded buffer.
HandlerRespond ==
    /\ Running /\ mainPc = "returned"
    /\ statusCode' = IF err # "nil" THEN 500 ELSE 200
    /\ mainPc' = "responded"
    /\ UNCHANGED <<cfg, env, pixels, workBuffer, workClosed, pixelBuffer,
                   pixelClosed, wg, launched, wpc, witem, wx, wy, ppc, pi, pj,
                   cpc, received, consumed, panicked, err>>

\* The repeated render with a stub sampler: the service takes a second
\* request, the same parameters with any positive numThreads, rendered from
\* scratch by a new call.
NextRequest ==
    /\ Running /\ mainPc = "responded"
    /\ request = 1
    /\ Deterministic
    /\ request' = 2
    /\ firstPixels' = pixels
    /\ firstThreads' = cfg.numThreads
    /\ \E nt \in 1..MaxThreads : cfg' = [cfg EXCEPT !.numThreads = nt]
    /\ mainPc' = "entry"
    /\ pixels' = <<>>
    /\ workBuffer' = <<>>
    /\ workClosed' = FALSE
    /\ pixelBuffer' = <<>>
    /\ pixelClosed' = FALSE
    /\ wg' = 0
    /\ launched' = 0
    /\ wpc' = [w \in Workers |-> "idle"]
    /\ witem' = [w \in Workers |-> NoItem]
    /\ wx' = [w \in Workers |-> 0]
    /\ wy' = [w \in Workers |-> 0]
    /\ ppc' = "idle"
    /\ pi' = 0
    /\ pj' = 0
    /\ cpc' = "idle"
    /\ received' = EmptyBag
    /\ consumed' = EmptyBag
    /\ err' = "none"
    /\ statusCode' = 0
    /\ UNCHANGED <<sampler, nanByte, panicked, escape>>

(* --------------------------- the tile producer ------------------------- *)

\* A send on workBuffer proceeds: the channel has room, or it is closed
\* (the send then panics without waiting).
CanSendTile == workClosed \/ Len(workBuffer) < WorkCap(cfg)

\* A send on pixelBuffer proceeds.
CanSendPixel == pixelClosed \/ Len(pixelBuffer) < PixelCap(cfg)

\* One send of workBufferInit's loops: workBuffer <- WorkItem{...}, then j++
\* (and i++ when j reaches sqrt).  The send waits while the channel is full.
ProducerSend ==
    /\ Running /\ ppc = "send"
    /\ pi < Side(cfg)
    /\ CanSendTile
    /\ IF workClosed
       THEN /\ panicked' = "send on closed channel"
            /\ UNCHANGED <<workBuffer, pi, pj>>
       ELSE /\ workBuffer' = Append(workBuffer, WorkItem(cfg, pi, pj))
            /\ IF pj + 1 < Side(cfg)
               THEN pj' = pj + 1 /\ pi' = pi
               ELSE pj' = 0 /\ pi' = pi + 1
            /\ UNCHANGED panicked
    /\ UNCHANGED <<cfg, env, mainPc, pixels, workClosed, pixelBuffer,
                   pixelClosed, wg, launched, wpc, witem, wx, wy, ppc, cpc,
                   received, consumed, err, statusCode>>

\* A slip: the producer ends without close(workBuffer).
ProducerNoClose ==
    /\ Running /\ ppc = "send"
    /\ pi >= Side(cfg)
    /\ ppc' = "done"
    /\ UNCHANGED <<cfg, env, mainPc, pixels, workBuffer, workClosed,
                   pixelBuffer, pixelClosed, wg, launched, wpc, witem, wx, wy,
                   pi, pj, cpc, received, consumed, panicked, err, statusCode>>

\* workBufferInit has returned: close(workBuffer).
ProducerClose ==
    /\ Running /\ ppc = "send"
    /\ pi >= Side(cfg)
    /\ workClosed' = TRUE
    /\ ppc' = "done"
    /\ UNCHANGED <<cfg, env, mainPc, pixels, workBuffer, pixelBuffer,
                   pixelClosed, wg, launched, wpc, witem, wx, wy, pi, pj, cpc,
                   received, consumed, panicked, err, statusCode>>

(* ------------------------------ the workers ---------------------------- *)

\* A slip: the tile is read but left in the queue for the next receiver.
WorkerRecvPeek(w) ==
    /\ Running /\ wpc[w] = "recv"
    /\ workBuffer # <<>>
    /\ LET t == Head(workBuffer)
       IN  /\ consumed' = consumed (+) SetToBag({t})
           /\ IF TilePixels(t) = {}
              THEN UNCHANGED <<wpc, witem, wx, wy>>
              ELSE /\ wpc' = [wpc EXCEPT ![w] = "pixel"]
                   /\ witem' = [witem EXCEPT ![w] = t]
                   /\ wx' = [wx EXCEPT ![w] = t.initialX]
                   /\ wy' = [wy EXCEPT ![w] = t.initialY]
    /\ UNCHANGED <<cfg, env, mainPc, pixels, workBuffer, workClosed, pixelBuffer,
                   pixelClosed, wg, launched, ppc, pi, pj, cpc, received,
                   panicked, err, statusCode>>

\* for workItem := range workBuffer: receive the oldest tile and enter the
\* x and y loops; a tile with no pixel leaves the worker at the receive.
WorkerRecv(w) ==
    /\ Running /\ wpc[w] = "recv"
    /\ workBuffer # <<>>
    /\ LET t == Head(workBuffer)
       IN  /\ workBuffer' = Tail(workBuffer)
           /\ consumed' = consumed (+) SetToBag({t})
           /\ IF TilePixels(t) = {}
              THEN UNCHANGED <<wpc, witem, wx, wy>>
              ELSE /\ wpc' = [wpc EXCEPT ![w] = "pixel"]
                   /\ witem' = [witem EXCEPT ![w] = t]
                   /\ wx' = [wx EXCEPT ![w] = t.initialX]
                   /\ wy' = [wy EXCEPT ![w] = t.initialY]
    /\ UNCHANGED <<cfg, env, mainPc, pixels, workClosed, pixelBuffer,
                   pixelClosed, wg, launched, ppc, pi, pj, cpc, received,
                   panicked, err, statusCode>>

\* The sample loop for pixel (x, y) and pixelBuffer <- Pix{...}, then y++
\* (and x++ when y reaches finalY).  The send waits while the channel is
\* full and panics on a closed channel.
WorkerPixel(w) ==
    /\ Running /\ wpc[w] = "pixel"
    /\ CanSendPixel
    /\ IF pixelClosed
       THEN /\ panicked' = "send on closed channel"
            /\ UNCHANGED <<pixelBuffer, wpc, wx, wy>>
       ELSE /\ \E p \in PixOutcomes(cfg, wx[w], wy[w], sampler, nanByte) :
                  pixelBuffer' = Append(pixelBuffer, p)
            /\ IF wy[w] + 1 < witem[w].finalY
               THEN /\ wy' = [wy EXCEPT ![w] = wy[w] + 1]
                    /\ UNCHANGED <<wx, wpc>>
               ELSE IF wx[w] + 1 < witem[w].finalX
               THEN /\ wx' = [wx EXCEPT ![w] = wx[w] + 1]
                    /\ wy' = [wy EXCEPT ![w] = witem[w].initialY]
                    /\ UNCHANGED wpc
               ELSE /\ wpc' = [wpc EXCEPT ![w] = "recv"]
                    /\ UNCHANGED <<wx, wy>>
            /\ UNCHANGED panicked
    /\ UNCHANGED <<cfg, env, mainPc, pixels, workBuffer, workClosed,
                   pixelClosed, wg, launched, witem, ppc, pi, pj, cpc,
                   received, consumed, err, statusCode>>

\* A slip: the worker leaves as soon as it finds the channel empty.
WorkerExitOnEmpty(w) ==
    /\ Running /\ wpc[w] = "recv"
    /\ workBuffer = <<>>
    /\ wpc' = [wpc EXCEPT ![w] = "done"]
    /\ wg' = wg - 1
    /\ UNCHANGED <<cfg, env, mainPc, pixels, workBuffer, workClosed,
                   pixelBuffer, pixelClosed, launched, witem, wx, wy, ppc, pi,
                   pj, cpc, received, consumed, panicked, err, statusCode>>

\* The range loop ends when workBuffer is closed and empty; the deferred
\* wg.Done() runs.
WorkerExit(w) ==
    /\ Running /\ wpc[w] = "recv"
    /\ workBuffer = <<>> /\ workClosed
    /\ wpc' = [wpc EXCEPT ![w] = "done"]
    /\ wg' = wg - 1
    /\ UNCHANGED <<cfg, env, mainPc, pixels, workBuffer, workClosed,
                   pixelBuffer, pixelClosed, launched, witem, wx, wy, ppc, pi,
                   pj, cpc, received, consumed, panicked, err, statusCode>>

(* ------------------------------ the closer ----------------------------- *)

\* A slip: the closer does not wait for the workers.
CloserNoWait ==
    /\ Running /\ cpc = "wait"
    /\ cpc' = "close"
    /\ UNCHANGED <<cfg, env, mainPc, pixels, workBuffer, workClosed,
                   pixelBuffer, pixelClosed, wg, launched, wpc, witem, wx, wy,
                   ppc, pi, pj, received, consumed, panicked, err, statusCode>>

\* wg.Wait() returns when the counter is zero.
CloserWait ==
    /\ Running /\ cpc = "wait"
    /\ wg = 0
    /\ cpc' = "close"
    /\ UNCHANGED <<cfg, env, mainPc, pixels, workBuffer, workClosed,
                   pixelBuffer, pixelClosed, wg, launched, wpc, witem, wx, wy,
                   ppc, pi, pj, received, consumed, panicked, err, statusCode>>

\* close(pixelBuffer)
CloserClose ==
    /\ Running /\ cpc = "close"
    /\ pixelClosed' = TRUE
    /\ cpc' = "done"
    /\ UNCHANGED <<cfg, env, mainPc, pixels, workBuffer, workClosed,
                   pixelBuffer, wg, launched, wpc, witem, wx, wy, ppc, pi, pj,
                   received, consumed, panicked, err, statusCode>>

(* --------------------------- specifications ---------------------------- *)

Next ==
    \/ Alloc
    \/ SpawnWorker
    \/ SpawnProducer
    \/ SpawnCloser
    \/ CollectPixel
    \/ CollectDone
    \/ HandlerRespond
    \/ NextRequest
    \/ ProducerSend
    \/ ProducerClose
    \/ \E w \in Workers : WorkerRecv(w)
    \/ \E w \in Workers : WorkerPixel(w)
    \/ \E w \in Workers : WorkerExit(w)
    \/ CloserWait
    \/ CloserClose

Spec == Init /\ [][Next]_vars

\* A step of some goroutine of the render (not the arrival of a request).
RenderStep ==
    \/ Alloc
    \/ SpawnWorker
    \/ SpawnProducer
    \/ SpawnCloser
    \/ CollectPixel
    \/ CollectDone
    \/ HandlerRespond
    \/ ProducerSend
    \/ ProducerClose
    \/ \E w \in Workers : WorkerRecv(w)
    \/ \E w \in Workers : WorkerPixel(w)
    \/ \E w \in Workers : WorkerExit(w)
    \/ CloserWait
    \/ CloserClose

\* The Go scheduler does not stop while some goroutine can take a step;
\* requests arrive or not.
Fairness == WF_vars(RenderStep)

\* One render of a valid config under fair scheduling.
InitValid == Init /\ ValidConfig(cfg)

FairSpec == InitValid /\ [][RenderStep]_vars /\ Fairness

\* The partitioner alone: workBufferInit and the close after it, on larger
\* images than a whole render is run on, the default request among them.
TileRequests ==
    {newConfigFromRequest(w, h, MaxIter, 1, nb, 0) :
        w \in 1..MaxTileDim, h \in 1..MaxTileDim, nb \in 0..MaxTileBlocks}
    \cup {newConfigFromRequest(DefaultWidth, DefaultHeight, MaxIter, 1,
                               DefaultBlocks, DefaultThreads)}

InitTiles ==
    /\ cfg \in TileRequests
    /\ sampler = {0}
    /\ mainPc = "spawnCloser"
    /\ pixels = <<>>
    /\ workBuffer = <<>>
    /\ workClosed = FALSE
    /\ pixelBuffer = <<>>
    /\ pixelClosed = FALSE
    /\ wg = cfg.numThreads
    /\ launched = 0
    /\ wpc = [w \in Workers |-> "idle"]
    /\ witem = [w \in Workers |-> NoItem]
    /\ wx = [w \in Workers |-> 0]
    /\ wy = [w \in Workers |-> 0]
    /\ ppc = "send"
    /\ pi = 0
    /\ pj = 0
    /\ cpc = "idle"
    /\ received = EmptyBag
    /\ consumed = EmptyBag
    /\ panicked = ""
    /\ err = "none"
    /\ statusCode = 0
    /\ nanByte = 0
    /\ request = 1
    /\ firstPixels = <<>>
    /\ firstThreads = 0
    /\ escape = NoCall

NextTiles ==
    \/ ProducerSend
    \/ ProducerClose

SpecTiles == InitTiles /\ [][NextTiles]_vars

\* One render, of any request, and the response to it.
SpecRender == Init /\ [][RenderStep]_vars

(* ----------------------- the escape evaluator alone -------------------- *)

\* Everything of a render: a call of the evaluator touches none of it.
render == <<cfg, sampler, mainPc, pixels, workBuffer, workClosed, pixelBuffer,
            pixelClosed, wg, launched, wpc, witem, wx, wy, ppc, pi, pj, cpc,
            received, consumed, panicked, err, statusCode, nanByte, request,
            firstPixels, firstThreads>>

\* The arguments of the calls: a and b in halves, maxIter from 0 on.
Calls ==
    {[NoCall EXCEPT !.a2 = a2, !.b2 = b2, !.maxIter = m, !.pc = "call"] :
        a2 \in -MaxCoord..MaxCoord, b2 \in -MaxCoord..MaxCoord,
        m \in 0..MaxIter}

\* No render is under way; one call is about to be made.
InitEscape ==
    /\ cfg = newConfigFromRequest(1, 1, 0, 1, 1, 1)
    /\ sampler = {0}
    /\ mainPc = "entry"
    /\ pixels = <<>>
    /\ workBuffer = <<>>
    /\ workClosed = FALSE
    /\ pixelBuffer = <<>>
    /\ pixelClosed = FALSE
    /\ wg = 0
    /\ launched = 0
    /\ wpc = [w \in Workers |-> "idle"]
    /\ witem = [w \in Workers |-> NoItem]
    /\ wx = [w \in Workers |-> 0]
    /\ wy = [w \in Workers |-> 0]
    /\ ppc = "idle"
    /\ pi = 0
    /\ pj = 0
    /\ cpc = "idle"
    /\ received = EmptyBag
    /\ consumed = EmptyBag
    /\ panicked = ""
    /\ err = "none"
    /\ statusCode = 0
    /\ nanByte = 0
    /\ request = 1
    /\ firstPixels = <<>>
    /\ firstThreads = 0
    /\ escape \in Calls

\* r, iter := mandelbrotIteraction(a, b, cfg.maxIter)
Evaluate ==
    /\ escape.pc = "call"
    /\ escape' = [escape EXCEPT
                      !.res = mandelbrotIteraction(escape.a2, escape.b2,
                                                   escape.maxIter),
                      !.pc = "evaluated"]
    /\ UNCHANGED render

\* c := pixelColor(r, iter)
Colorize ==
    /\ escape.pc = "evaluated"
    /\ escape' = [escape EXCEPT !.color = pixelColor(escape.res),
                                !.pc = "coloured"]
    /\ UNCHANGED render

NextEscape ==
    \/ Evaluate
    \/ Colorize

SpecEscape == InitEscape /\ [][NextEscape]_vars

(* ------------------------------ properties ----------------------------- *)

\* generateFractalBytes has returned.
Returned == mainPc \in {"returned", "responded"}

\* The pixel coordinates of the image.
ImagePixels ==
    {<<x, y>> : x \in 0..(cfg.imgWidth - 1), y \in 0..(cfg.imgHeight - 1)}

Coord(p) == <<p.x, p.y>>

\* How many Pix records with coordinate c the workers have sent so far: those
\* still queued and those the collector has taken.
EmittedCount(c) ==
    CopiesIn(c, received)
        + Cardinality({k \in DOMAIN pixelBuffer : Coord(pixelBuffer[k]) = c})

EmittedCoords ==
    BagToSet(received) \cup {Coord(pixelBuffer[k]) : k \in DOMAIN pixelBuffer}

OffsetOf(c) == PixelIndex([x |-> c[1], y |-> c[2]])

\* The colours (R, G, B) of the pixels of a buffer.
BufferColours(buf) ==
    {<<buf[k], buf[k + 1], buf[k + 2]>> :
        k \in {n \in DOMAIN buf : n % BytesPerPixel = 0}}

\* C1: for every valid config, when generateFractalBytes has returned every
\* pixel coordinate of the image has been written by the collector.
C1_EveryPixelWritten ==
    (ValidConfig(cfg) /\ Returned)
        => \A c \in ImagePixels : CopiesIn(c, received) >= 1

\* C2: at every moment of a render, for every worker count, no pixel
\* coordinate has been emitted more than once (queued or collected), and no
\* two collected pixels share a buffer offset.
C2_NoPixelTwice ==
    /\ \A c \in EmittedCoords : EmittedCount(c) <= 1
    /\ \A c1, c2 \in BagToSet(received) : OffsetOf(c1) = OffsetOf(c2) => c1 = c2

\* C2 witness: a render by two workers has returned with four or more
\* pixels collected from several tiles.
C2_Witness ==
    /\ Returned /\ cfg.numThreads >= 2
    /\ BagCardinality(received) >= 4
    /\ BagCardinality(consumed) >= 4

\* C3: for every valid config the returned buffer has length
\* imgWidth*imgHeight*4 and every alpha byte (offset 4k+3) is 255.
C3_LengthAndAlpha ==
    (ValidConfig(cfg) /\ Returned)
        => /\ DOMAIN pixels = 0..(cfg.imgWidth * cfg.imgHeight * BytesPerPixel - 1)
           /\ \A k \in 0..(cfg.imgWidth * cfg.imgHeight - 1) :
                 pixels[BytesPerPixel * k + 3] = Alpha

\* C4: with an invalid config no worker is ever started and the call does
\* not return a buffer with a nil error.
C4_InvalidConfigFails ==
    ~ValidConfig(cfg) => (launched = 0 /\ (Returned => err # "nil"))

\* C5: under fair scheduling a render of a valid config that has been
\* entered eventually returns.
C5_RenderTerminates ==
    (ValidConfig(cfg) /\ mainPc = "entry") ~> Returned

\* C5 witness: a render of a valid config by two workers has returned with
\* pixels collected.
C5_Witness ==
    /\ ValidConfig(cfg) /\ Returned
    /\ cfg.numThreads >= 2
    /\ BagCardinality(received) >= 1
    /\ \A w \in 1..cfg.numThreads : wpc[w] = "done"

\* C6: in every state where the call has returned (valid config), all
\* numThreads workers have terminated, the pixel channel is closed and empty,
\* and every pixel of the image has been received by the collector.
C6_ReturnedMeansAllDone ==
    (ValidConfig(cfg) /\ Returned)
        => /\ \A w \in 1..cfg.numThreads : wpc[w] = "done"
           /\ pixelClosed /\ pixelBuffer = <<>>
           /\ \A c \in ImagePixels : c \in BagToSet(received)

\* C7: for every valid config the collector has received exactly pixelTotal
\* records when its loop ends.
C7_ExactlyPixelTotal ==
    (ValidConfig(cfg) /\ Returned) => BagCardinality(received) = cfg.pixelTotal

\* C8: with a fixed-value sampler, a repeated render of the same config
\* returns a buffer identical to the first, whatever the two interleavings.
C8_SameBufferOnRepeat ==
    (request = 2 /\ Returned /\ Deterministic /\ cfg.numThreads = firstThreads)
        => pixels = firstPixels

\* C8 witness: the repeated render by two workers has returned a buffer of
\* several tiles that holds two different colours.
C8_Witness ==
    /\ request = 2 /\ Returned /\ Deterministic
    /\ cfg.numThreads = firstThreads /\ cfg.numThreads >= 2
    /\ BagCardinality(consumed) >= 4
    /\ Cardinality(BufferColours(pixels)) >= 2

\* C9: with a fixed-value sampler, two renders of configs that differ only
\* in their positive numThreads return identical buffers.
C9_SameBufferAnyPool ==
    (/\ request = 2 /\ Returned /\ Deterministic
     /\ firstThreads > 0 /\ cfg.numThreads > 0
     /\ cfg.numThreads # firstThreads)
        => pixels = firstPixels

\* C9 witness: after a render by one worker, the render by the largest pool
\* has returned a buffer that holds two different colours.
C9_Witness ==
    /\ request = 2 /\ Returned /\ Deterministic
    /\ firstThreads = 1 /\ cfg.numThreads = MaxThreads
    /\ BagCardinality(received) >= 2
    /\ Cardinality(BufferColours(pixels)) >= 2

\* Two half-open tiles share no pixel.
TilesDisjoint(t, u) ==
    \/ t.finalX <= u.initialX \/ u.finalX <= t.initialX
    \/ t.finalY <= u.initialY \/ u.finalY <= t.initialY

TileArea(t) == (t.finalX - t.initialX) * (t.finalY - t.initialY)

RECURSIVE SumAreas(_)
SumAreas(ts) == IF ts = <<>> THEN 0 ELSE TileArea(Head(ts)) + SumAreas(Tail(ts))

\* numBlocks is a perfect square whose side divides both dimensions.
GridDivides(c) ==
    /\ c.numBlocks > 0
    /\ Side(c) * Side(c) = c.numBlocks
    /\ c.imgWidth % Side(c) = 0
    /\ c.imgHeight % Side(c) = 0

\* C10: when numBlocks is a perfect square whose side divides imgWidth and
\* imgHeight (numBlocks = 64 on 1024x1024 among them), the tiles published
\* form a side x side grid, are pairwise disjoint, and their areas sum to
\* imgWidth*imgHeight.
C10_TilesPartition ==
    (ppc = "done" /\ GridDivides(cfg))
        => /\ Len(workBuffer) = cfg.numBlocks
           /\ \A k, m \in DOMAIN workBuffer :
                 k # m => TilesDisjoint(workBuffer[k], workBuffer[m])
           /\ \A k \in DOMAIN workBuffer : TileArea(workBuffer[k]) > 0
           /\ SumAreas(workBuffer) = cfg.imgWidth * cfg.imgHeight

\* C10 witness: the 8 x 8 grid of the default request has been published.
C10_Witness ==
    /\ ppc = "done"
    /\ cfg.imgWidth = DefaultWidth /\ cfg.imgHeight = DefaultHeight
    /\ cfg.numBlocks = DefaultBlocks
    /\ Len(workBuffer) = 64

\* How many tiles the producer has sent so far.
Published == IF ppc = "idle" THEN 0 ELSE pi * Side(cfg) + pj

\* The k-th tile the producer sends (k from 0): i = k / sqrt, j = k % sqrt.
Tile(k) == WorkItem(cfg, k \div Side(cfg), k % Side(cfg))

\* C11: every published tile is, at every moment, either still queued or
\* received by a worker, never both and never twice: the channel holds the
\* latest sends in order, the receptions are the sends before them, each
\* tile value received as often as it was sent; and when a render with
\* numThreads >= 1 has returned, the producer has finished and no tile is
\* left in the channel.
C11_TileConsumedOnce ==
    /\ LET n == Published
           q == Len(workBuffer)
           sent == [k \in 0..(n - 1) |-> Tile(k)]
       IN  /\ q <= n
           /\ \A k \in 1..q : workBuffer[k] = sent[n - q + k - 1]
           /\ BagCardinality(consumed) = n - q
           /\ \A t \in BagToSet(consumed) :
                 CopiesIn(t, consumed)
                     = Cardinality({k \in 0..(n - q - 1) : sent[k] = t})
    /\ (Returned /\ cfg.numThreads >= 1)
          => /\ ppc = "done" /\ workBuffer = <<>>
             /\ BagCardinality(consumed) = Side(cfg) * Side(cfg)

\* C11 witness: a render by two workers has returned after the four tiles of
\* a 2 x 2 grid were received.
C11_Witness ==
    /\ Returned /\ cfg.numThreads >= 2
    /\ Side(cfg) >= 2
    /\ BagCardinality(consumed) = Side(cfg) * Side(cfg)
    /\ Cardinality(BagToSet(consumed)) >= 2

\* C12: no tile is published before all numThreads workers have been
\* started: once the producer exists (and so whenever a tile has been sent)
\* the number of workers started equals numThreads, and it never exceeds it.
C12_WorkersBeforeTiles ==
    /\ (ppc # "idle" \/ workBuffer # <<>> \/ consumed # EmptyBag)
          => launched = cfg.numThreads
    /\ launched <= (IF cfg.numThreads < 0 THEN 0 ELSE cfg.numThreads)
    /\ Returned => launched = cfg.numThreads

\* C12 witness: the first tile is queued, two workers are started and none
\* has received a tile yet.
C12_Witness ==
    /\ Len(workBuffer) = 1 /\ pi = 0 /\ pj = 1
    /\ launched = cfg.numThreads /\ cfg.numThreads >= 2
    /\ consumed = EmptyBag

\* C13: for every valid config the queued tiles never exceed numBlocks and
\* the queued pixels never exceed pixelTotal, and no sender ever waits: when
\* the producer stands at a send the work channel has room, and when a
\* worker stands at a send the pixel channel is open and has room.
C13_SendsNeverBlock ==
    ValidConfig(cfg)
        => /\ Len(workBuffer) <= cfg.numBlocks
           /\ Len(pixelBuffer) <= cfg.pixelTotal
           /\ (ppc = "send" /\ pi < Side(cfg)) => (CanSendTile /\ ~workClosed)
           /\ \A w \in Workers :
                 wpc[w] = "pixel" => (CanSendPixel /\ ~pixelClosed)

\* C13 witness: in a valid render both workers have sent all they had while
\* the collector has taken nothing: the pixel channel holds pixelTotal pixels.
C13_Witness ==
    /\ ValidConfig(cfg) /\ cfg.numThreads >= 2
    /\ cfg.pixelTotal >= 4
    /\ Len(pixelBuffer) = cfg.pixelTotal
    /\ received = EmptyBag

\* The call of the escape evaluator has returned.
Evaluated == escape.pc \in {"evaluated", "coloured"}

\* The point of the call lies outside the circle of radius 2: a*a + b*b > 4.
OutsideRadius ==
    escape.a2 * escape.a2 + escape.b2 * escape.b2 > EscapeRadiusSq * 4

\* The returned magnitudeSquared is a*a + b*b.
MagnitudeOfPoint ==
    escape.res.magNum * 4
        = (escape.a2 * escape.a2 + escape.b2 * escape.b2) * escape.res.magDen

\* C14 as stated: for maxIter >= 1 and a point with a*a + b*b > 4 the
\* evaluator returns iterations = 0 and magnitudeSquared = a*a + b*b.
C14_EscapesAtZero ==
    (Evaluated /\ escape.maxIter >= 1 /\ OutsideRadius)
        => escape.res.iter = 0 /\ MagnitudeOfPoint

\* C14 amended: the orbit starts at 0, so iteration 0 never escapes.  For a
\* point with a*a + b*b > 4 the evaluator returns iterations = 1; the
\* magnitudeSquared is a*a + b*b when maxIter >= 2 and 0 when maxIter = 1.
C14_EscapesAtOne ==
    (Evaluated /\ escape.maxIter >= 1 /\ OutsideRadius)
        => /\ escape.res.iter = 1
           /\ escape.maxIter >= 2 => MagnitudeOfPoint
           /\ escape.maxIter = 1 => escape.res.magNum = 0

\* C14 witness: a call with maxIter = 2 on the point (2.5, -1) has returned
\* iterations = 1 and the magnitude 7.25.
C14_Witness ==
    /\ Evaluated /\ escape.maxIter = 2
    /\ escape.a2 = 5 /\ escape.b2 = -2
    /\ escape.res.iter = 1
    /\ escape.res.magNum * 4 = 29 * escape.res.magDen

\* The pixels some tile of the grid covers.
Assigned ==
    UNION {TilePixels(WorkItem(cfg, i, j)) :
              i \in 0..(Side(cfg) - 1), j \in 0..(Side(cfg) - 1)}

\* The pixels right of column xEdge or below row yEdge.
Beyond(xEdge, yEdge) ==
    {c \in ImagePixels : c[1] >= xEdge \/ c[2] >= yEdge}

\* The boundary strip: right of the last full column band or below the last
\* full row band.
Strip ==
    Beyond(Side(cfg) * (cfg.imgWidth \div Side(cfg)),
           Side(cfg) * (cfg.imgHeight \div Side(cfg)))

\* side = floor(sqrt(numBlocks)) does not divide imgWidth or imgHeight.
SideLeavesRemainder ==
    /\ cfg.imgWidth > 0 /\ cfg.imgHeight > 0 /\ cfg.numBlocks >= 1
    /\ cfg.imgWidth % Side(cfg) # 0 \/ cfg.imgHeight % Side(cfg) # 0

\* C15: when side does not divide imgWidth or imgHeight, the pixels no tile
\* covers are exactly those with x >= side*(imgWidth div side) or
\* y >= side*(imgHeight div side); the strip is at most side-1 columns and
\* side-1 rows wide; no worker ever emits a pixel of it, and at return all
\* four bytes of each such pixel are 0.
C15_BoundaryStripUnwritten ==
    SideLeavesRemainder
        => /\ ImagePixels \ Assigned = Strip
           /\ cfg.imgWidth - Side(cfg) * (cfg.imgWidth \div Side(cfg))
                 <= Side(cfg) - 1
           /\ cfg.imgHeight - Side(cfg) * (cfg.imgHeight \div Side(cfg))
                 <= Side(cfg) - 1
           /\ EmittedCoords \cap Strip = {}
           /\ Returned
                 => \A c \in Strip :
                       \A k \in 0..(BytesPerPixel - 1) : pixels[OffsetOf(c) + k] = 0

\* C15 witness: a render by two workers has returned with the pixels of the
\* tiles written and a strip of at least two pixels left at zero.
C15_Witness ==
    /\ SideLeavesRemainder /\ Returned /\ cfg.numThreads >= 2
    /\ Cardinality(Strip) >= 2
    /\ BagToSet(received) = ImagePixels \ Strip
    /\ BagCardinality(received) >= 4
    /\ \E c \in Strip : pixels[OffsetOf(c) + 3] = 0
    /\ \E c \in BagToSet(received) : pixels[OffsetOf(c) + 3] = Alpha

\* C16: a worker that has terminated (wg.Done called) did so after the
\* producer pushed every tile and closed the work channel, with the channel
\* empty and every tile consumed; and a worker at the receive of an empty,
\* still open channel can take no step: it neither terminates nor proceeds.
C16_WorkerExitsAfterClose ==
    /\ \A w \in Workers :
          wpc[w] = "done"
              => /\ ppc = "done" /\ pi >= Side(cfg)
                 /\ workClosed /\ workBuffer = <<>>
                 /\ BagCardinality(consumed) = Side(cfg) * Side(cfg)
    /\ \A w \in Workers :
          (wpc[w] = "recv" /\ workBuffer = <<>> /\ ~workClosed)
              => /\ ~ENABLED WorkerExit(w)
                 /\ ~ENABLED WorkerRecv(w)
                 /\ ~ENABLED WorkerPixel(w)

\* C16 witness: one worker has terminated while the other is still computing
\* the pixels of the last tile it received.
C16_Witness ==
    /\ wpc[1] = "done" /\ wpc[2] = "pixel"
    /\ workClosed /\ workBuffer = <<>>
    /\ BagCardinality(consumed) >= 4

Channels == {"R", "G", "B"}

\* The channel sums the sample loop can have accumulated for pixel (x, y).
SumsAt(x, y) == SampleSums(cfg, x, y, cfg.samples, sampler)

\* C17: for samples >= 1, every channel sum a worker can have accumulated
\* for its pixel lies in 0..255*samples and its average is the floor of
\* sum/samples, a value in 0..255 that the 8-bit conversion leaves as it is;
\* the pixel sent last carries such floors in its three channels, and every
\* queued channel value lies in 0..255.
C17_AverageTruncates ==
    cfg.samples >= 1
        => /\ \A w \in Workers :
                 wpc[w] = "pixel"
                     => \A s \in SumsAt(wx[w], wy[w]) : \A ch \in Channels :
                           /\ 0 <= s[ch] /\ s[ch] <= 255 * cfg.samples
                           /\ Average(s[ch], cfg.samples, nanByte)
                                  = s[ch] \div cfg.samples
                           /\ s[ch] \div cfg.samples \in 0..255
           /\ \A k \in DOMAIN pixelBuffer :
                 {pixelBuffer[k].cr, pixelBuffer[k].cg, pixelBuffer[k].cb}
                     \subseteq 0..255
           /\ pixelBuffer # <<>>
                 => LET p == pixelBuffer[Len(pixelBuffer)]
                    IN  \E s \in SumsAt(p.x, p.y) :
                           /\ p.cr = s.R \div cfg.samples
                           /\ p.cg = s.G \div cfg.samples
                           /\ p.cb = s.B \div cfg.samples

\* C17 witness: with two samples a queued pixel carries the floor of an odd
\* red sum (one sample black, one coloured: 255 gives 127, the half dropped).
C17_Witness ==
    /\ cfg.samples = 2
    /\ \E k \in DOMAIN pixelBuffer :
          LET p == pixelBuffer[k]
          IN  \E s \in SumsAt(p.x, p.y) :
                 /\ s.R = 255
                 /\ 2 * p.cr + 1 = s.R
                 /\ p.cg = s.G \div 2 /\ p.cb = s.B \div 2

\* The config has positive dimensions and numBlocks >= 1.
PositiveGrid == cfg.imgWidth > 0 /\ cfg.imgHeight > 0 /\ cfg.numBlocks >= 1

\* The Pix records the workers have sent and the collector has not taken.
Queued == {pixelBuffer[k] : k \in DOMAIN pixelBuffer}

\* C18: for positive dimensions and numBlocks >= 1 every pixel a worker is
\* about to emit, has queued, or the collector has taken lies inside the
\* image, its last write index (y*imgWidth + x)*4 + 3 is below the buffer
\* length imgWidth*imgHeight*4, and the collector never runs out of range.
C18_CoordinatesInRange ==
    PositiveGrid
        => /\ \A w \in Workers :
                 wpc[w] = "pixel" => <<wx[w], wy[w]>> \in ImagePixels
           /\ \A p \in Queued :
                 /\ 0 <= p.x /\ p.x < cfg.imgWidth
                 /\ 0 <= p.y /\ p.y < cfg.imgHeight
                 /\ PixelIndex(p) >= 0
                 /\ PixelIndex(p) + 3
                        < cfg.imgWidth * cfg.imgHeight * BytesPerPixel
                 /\ (PixelIndex(p) + 3) \in DOMAIN pixels
           /\ BagToSet(received) \subseteq ImagePixels
           /\ panicked # "index out of range"

\* C18 witness: the pixel of the last column and last row of an image of
\* two or more columns and rows is queued, its alpha index the last byte.
C18_Witness ==
    /\ PositiveGrid /\ cfg.imgWidth >= 2 /\ cfg.imgHeight >= 2
    /\ \E p \in Queued :
          /\ p.x = cfg.imgWidth - 1 /\ p.y = cfg.imgHeight - 1
          /\ PixelIndex(p) + 3 = cfg.imgWidth * cfg.imgHeight * BytesPerPixel - 1

\* The workers generateFractalBytes has started.
Started == {w \in Workers : w <= launched}

\* While a channel is closed nothing is added to it.
NoSendAfterClose ==
    /\ (workClosed /\ workClosed') => Len(workBuffer') <= Len(workBuffer)
    /\ (pixelClosed /\ pixelClosed') => Len(pixelBuffer') <= Len(pixelBuffer)

\* A close acts on an open channel, and a closed channel stays closed.
ClosedOnce ==
    /\ (ppc = "send" /\ ppc' = "done") => (~workClosed /\ workClosed')
    /\ (cpc = "close" /\ cpc' = "done") => (~pixelClosed /\ pixelClosed')
    /\ workClosed => workClosed'
    /\ pixelClosed => pixelClosed'

\* C19: in every interleaving each channel is closed once and never sent on
\* after its close: the work channel is closed after the producer's last
\* send, the pixel channel after all numThreads workers have called
\* wg.Done; no send-on-closed panic arises; a returned render has closed the
\* pixel channel and, when it has workers, the work channel.
C19_ClosedOnceNoSendAfter ==
    /\ [](/\ workClosed => (ppc = "done" /\ pi >= Side(cfg))
          /\ pixelClosed
                => /\ cpc = "done" /\ wg = 0
                   /\ launched = cfg.numThreads
                   /\ \A w \in Started : wpc[w] = "done"
          /\ panicked # "send on closed channel"
          /\ Returned => pixelClosed
          /\ (Returned /\ cfg.numThreads >= 1) => workClosed)
    /\ [][NoSendAfterClose /\ ClosedOnce]_vars

\* C19 witness: a render by two workers has closed both channels after four
\* or more pixels were sent, and nothing has panicked.
C19_Witness ==
    /\ workClosed /\ pixelClosed /\ panicked = ""
    /\ cfg.numThreads >= 2 /\ launched = 2
    /\ BagCardinality(received) + Len(pixelBuffer) >= 4

\* The returned magnitudeSquared is greater than 4.
MagnitudeEscaped ==
    escape.res.magNum > EscapeRadiusSq * escape.res.magDen

====
